---- MODULE Spec2Model ----
(***************************************************************************)
(* Oracle Voice Tray: the timeline store and its enqueue paths, the        *)
(* playback worker, the session watcher's approval state machine and the   *)
(* MQTT session manager, as state machines translated from src-tauri/src.  *)
(***************************************************************************)
EXTENDS Integers, Sequences, FiniteSets, TLC

VARIABLES
    timeline,      \* AppState.timeline: VecDeque<VoiceEntry>, front = index 1
    next_id,       \* AppState.next_id
    is_speaking,   \* AppState.is_speaking
    inflight,      \* entries whose id is allocated and whose push has not run yet
    pc,            \* position of the process_queue thread
    entry,         \* process_queue's local entry_opt (Option<VoiceEntry>)
    synth,         \* running synthesizer child processes (by entry uid)
    nextUid,       \* history: insertion stamp given to the next pushed entry
    issued,        \* history: the ids given to entries, in the order handed out
    \* session watcher (start_session_watcher); Instants are kept as their age in seconds
    perm_mode,               \* perm_mode
    pending_tool_use,        \* pending_tool_use: Option<Instant>
    last_completion_notify,  \* last_completion_notify: Option<Instant>
    last_approval_notify,    \* last_approval_notify: Option<Instant>
    wpc,                     \* position of the watcher thread in its loop
    paths_left,              \* paths of the current notify event not yet visited
    \* history of the approval state machine
    probe,         \* one gating ToolUse followed since it arrived: its age, whether
                   \* an approval was pending then, whether an approval was announced since
    resolved,      \* the probe as the last ToolResult found it, until the next recv
    stale,         \* the pending approval was already pending at a SkipAll settings read
    cleared_by,    \* what cleared the pending approval last
    \* MQTT session manager (start_mqtt_client, run_mqtt_session)
    mqtt_status,     \* AppState.mqtt_status
    mqtt_reconnect,  \* AppState.mqtt_reconnect
    mpc,             \* position of the manager task
    config,          \* start_mqtt_client's local config, as the version it was loaded at
    cfg_file,        \* the version of the configuration file on disk
    \* log tail classifier (check_new_lines) on one session log; offsets count lines
    file,            \* the lines of the *.jsonl file on disk
    file_positions,  \* file_positions.get(path): Option<u64>
    tpc,             \* position of check_new_lines: "idle" between calls, "read" before the read
    file_size,       \* check_new_lines' local file_size, 0 between calls
    truncated,       \* history: this call found file_size < *pos
    new_content,     \* history: the lines the last call read, until the file changes
    returned,        \* history: the LineEvent the last call returned, until the file changes
    classified,      \* history: Some(n) when lines 1..n are the farthest the scan went
                     \* and the file was never cut; None once it was cut
    \* what the clients and the histories of the later sections see
    response,        \* the last POST /speak that returned: its request and the
                     \* SpeakResponse it got
    view,            \* what the last GET /timeline returned, where the worker was
                     \* then, and the POST it followed if that was the first enqueue
    status_read,     \* what the last GET /status returned, with the number of
                     \* Speaking entries and whether a synthesizer ran then
    dropped,         \* history: this broker session dropped a payload that did not parse
    missed,          \* history: the last wake went back to recv_timeout with an
                     \* expired approval and without the timer check
    \* the mutexes of AppState and the threads that take them
    held,            \* the locks each thread holds, in the order it took them
    lpc              \* the routine each thread runs and the operation it is at

\* the timeline, the worker and the history of the enqueues
tvars == <<timeline, next_id, is_speaking, inflight, pc, entry, synth, nextUid, issued>>

\* the parts of tvars no enqueue path touches
workervars == <<is_speaking, pc, entry, synth>>

\* the watcher thread's locals
wvars == <<perm_mode, pending_tool_use, last_completion_notify, last_approval_notify,
           wpc, paths_left>>

\* the history of the approval state machine
hvars == <<probe, resolved, stale, cleared_by>>

\* the MQTT manager and the configuration file
mvars == <<mqtt_status, mqtt_reconnect, mpc, config, cfg_file>>

\* the log file and the classifier
fvars == <<file, file_positions, tpc, file_size, truncated, new_content, returned,
          classified>>

\* the HTTP clients' side and the histories of the broker session and the wakes
xvars == <<response, view, status_read, dropped, missed>>

\* the mutexes and the threads' positions in their lock-taking routines
lvars == <<held, lpc>>

vars == <<tvars, wvars, hvars, mvars, fvars, xvars, lvars>>

----------------------------------------------------------------------------
(* Bounds of the model *)

\* the timeline keeps this many entries (100 in the source, scaled down)
Capacity == 2
\* ids the shared counter may hand out before the allocating paths stop
MaxId == 2
\* test_voice invocations over the whole run
MaxTest == 1
\* POST /speak handlers in flight at once
MaxHttp == 2

----------------------------------------------------------------------------
(* Option<T> is a sequence of length 0 or 1 *)

None == <<>>
Some(x) == <<x>>
unwrap_or(o, d) == IF o = None THEN d ELSE o[1]

\* serde default values of the /speak handler
DefaultVoice == "Samantha"
DefaultRate == 220

\* SpeakRequest bodies the model sends
Requests ==
    { [text |-> "hi", voice |-> None, agent |-> None, rate |-> Some(200)] }

\* JSON objects sent as the body of POST /speak or as a broker payload:
\* a record of the keys that are present
Payloads ==
    { [text |-> "hi", rate |-> 200],
      [text |-> "", voice |-> "Daniel", agent |-> "oracle"],
      [rate |-> 200] }

\* an optional key of a JSON object
Field(p, k) == IF k \in DOMAIN p THEN Some(p[k]) ELSE None

\* serde_json::from_slice::<SpeakRequest>: Err (None) without the required
\* text, every other key optional
from_slice(p) ==
    IF "text" \in DOMAIN p
    THEN Some([text |-> p.text, voice |-> Field(p, "voice"),
               agent |-> Field(p, "agent"), rate |-> Field(p, "rate")])
    ELSE None

\* the requests the payloads parse to
ParsedRequests == {from_slice(p)[1] : p \in {q \in Payloads : from_slice(q) # None}}

----------------------------------------------------------------------------
(* Timeline store *)

RECURSIVE pop_front_while(_)
\* while timeline.len() > 100 { timeline.pop_front(); }
pop_front_while(tl) ==
    IF Len(tl) > Capacity THEN pop_front_while(Tail(tl)) ELSE tl

\* timeline.push_back(entry); while len > 100 pop_front
push_back_evict(tl, e) == pop_front_while(Append(tl, e))

\* Iterator::find: the first of the positions that satisfy the test, 0 for None
FirstOf(S) == IF S = {} THEN 0 ELSE CHOOSE i \in S : \A j \in S : i <= j

IsQueued(e) == e.status = "queued"

\* timeline.iter_mut().find(|e| e.status == "queued")
FindQueued(tl) == FirstOf({i \in 1..Len(tl) : IsQueued(tl[i])})

\* timeline.iter_mut().find(|e| e.id == id)
FindById(tl, id) == FirstOf({i \in 1..Len(tl) : tl[i].id = id})

SetStatus(tl, i, s) == [tl EXCEPT ![i].status = s]

\* a handler that takes test_voice's rate for a request without one
RequestEntryTestRate(id, req) ==
    [id |-> id, text |-> req.text, voice |-> unwrap_or(req.voice, DefaultVoice),
     rate |-> unwrap_or(req.rate, 175), agent |-> req.agent,
     status |-> "queued"]

\* VoiceEntry built by the /speak handler and the broker handler
RequestEntry(id, req) ==
    [id |-> id, text |-> req.text, voice |-> unwrap_or(req.voice, DefaultVoice),
     rate |-> unwrap_or(req.rate, DefaultRate), agent |-> req.agent,
     status |-> "queued"]

\* VoiceEntry built by queue_voice
WatcherEntry(id, text, rate) ==
    [id |-> id, text |-> text, voice |-> "Samantha", rate |-> rate,
     agent |-> Some("claude"), status |-> "queued"]

\* VoiceEntry built by test_voice
TestEntry(id) ==
    [id |-> id, text |-> "Hello! Voice Tray is working.", voice |-> "Samantha",
     rate |-> 175, agent |-> Some("Test"), status |-> "queued"]

\* the entry as it sits in the timeline, with its insertion stamp
Stamp(e, uid) ==
    [uid |-> uid, id |-> e.id, text |-> e.text, voice |-> e.voice,
     rate |-> e.rate, agent |-> e.agent, status |-> e.status]

InflightOf(src) == {h \in inflight : h.src = src}

----------------------------------------------------------------------------
(* Enqueue paths *)

\* let id = *next_id; *next_id += 1; under the next_id lock
AllocId(src, e, req) ==
    /\ next_id <= MaxId
    /\ next_id' = next_id + 1
    /\ issued' = Append(issued, next_id)
    /\ inflight' = inflight \cup {[src |-> src, e |-> e, req |-> req]}

\* POST /speak, first half: id allocation and entry construction
HttpSpeakAlloc(req) ==
    /\ Cardinality(InflightOf("http")) < MaxHttp
    /\ AllocId("http", RequestEntry(next_id, req), Some(req))
    /\ UNCHANGED <<timeline, is_speaking, pc, entry, synth, nextUid>>
    /\ UNCHANGED <<wvars, hvars, mvars>>
    /\ UNCHANGED fvars
    /\ UNCHANGED xvars
    /\ UNCHANGED lvars

\* Ok(req) of a broker message on the speak topic: the id from next_id and the entry
mqtt_queue(req) == AllocId("mqtt", RequestEntry(next_id, req), Some(req))

\* the session task is between two enqueues
MqttReady == InflightOf("mqtt") = {}

\* a handler that answers with the id after the one it gave the entry
SpeakResponseNext(id) == [id |-> id + 1, status |-> "queued"]

\* Json(SpeakResponse { id, status: "queued" })
SpeakResponse(id) == [id |-> id, status |-> "queued"]

\* the push half of every path that allocates from next_id:
\* timeline.push_back(entry) and the eviction loop, under the timeline lock
EnqueuePush ==
    /\ \E h \in inflight :
        /\ timeline' = push_back_evict(timeline, Stamp(h.e, nextUid))
        /\ inflight' = inflight \ {h}
    /\ nextUid' = nextUid + 1
    /\ UNCHANGED <<next_id, is_speaking, pc, entry, synth, issued>>
    /\ UNCHANGED <<wvars, hvars, mvars>>
    /\ UNCHANGED fvars
    /\ UNCHANGED xvars
    /\ UNCHANGED lvars

\* POST /speak, second half, with what the client gets back: push_back, the
\* eviction loop and Json(SpeakResponse)
HttpSpeakPush ==
    /\ \E h \in InflightOf("http") :
        /\ timeline' = push_back_evict(timeline, Stamp(h.e, nextUid))
        /\ inflight' = inflight \ {h}
        /\ response' = Some([req |-> h.req[1], body |-> SpeakResponse(h.e.id)])
    /\ nextUid' = nextUid + 1
    /\ UNCHANGED <<next_id, is_speaking, pc, entry, synth, issued>>
    /\ UNCHANGED <<wvars, hvars, mvars>>
    /\ UNCHANGED fvars
    /\ UNCHANGED <<view, status_read, dropped, missed>>
    /\ UNCHANGED lvars

\* test_voice: id from the timeline's length, push_back, no eviction loop
TestVoiceId(tl) == Len(tl) + 1

\* how many entries test_voice has pushed so far
TestCount == Len(issued) - (next_id - 1)

test_voice ==
    /\ TestCount < MaxTest
    /\ timeline' = Append(timeline, Stamp(TestEntry(TestVoiceId(timeline)), nextUid))
    /\ issued' = Append(issued, TestVoiceId(timeline))
    /\ nextUid' = nextUid + 1
    /\ UNCHANGED <<next_id, is_speaking, inflight, pc, entry, synth>>
    /\ UNCHANGED <<wvars, hvars, mvars>>
    /\ UNCHANGED fvars
    /\ UNCHANGED xvars
    /\ UNCHANGED lvars

\* a retain that keeps the queued entries only
OnlyQueued(e) == e.status = "queued"

\* clear_timeline: timeline.retain(|e| e.status != "done")
NotDone(e) == e.status # "done"

clear_timeline ==
    /\ timeline' = SelectSeq(timeline, NotDone)
    /\ timeline' # timeline
    /\ UNCHANGED <<next_id, is_speaking, inflight, pc, entry, synth, nextUid, issued>>
    /\ UNCHANGED <<wvars, hvars, mvars>>
    /\ UNCHANGED fvars
    /\ UNCHANGED xvars
    /\ UNCHANGED lvars

\* the POST /speak that returned last is the only enqueue there has been
FirstPostReturned ==
    response # None /\ next_id = 2 /\ nextUid = 2 /\ inflight = {}

\* GET /timeline, get_timeline: timeline.iter().cloned().collect()
get_timeline ==
    /\ view' = Some([entries |-> timeline, worker |-> pc,
                     first_post |-> IF FirstPostReturned THEN response ELSE None])
    /\ UNCHANGED <<response, status_read, dropped, missed>>
    /\ UNCHANGED <<tvars, wvars, hvars, mvars, fvars>>
    /\ UNCHANGED lvars

\* timeline.iter().filter(|e| e.status == s).count()
CountStatus(tl, s) == Cardinality({i \in 1..Len(tl) : tl[i].status = s})

\* the worker's mark-done block holds the timeline guard up to its write of
\* is_speaking
WorkerHoldsTimeline == pc = "flag_off"

\* GET /status, get_status: the timeline guard is held while is_speaking and
\* mqtt_status are read, so the timeline is the one of the moment of the reads
get_status ==
    /\ ~WorkerHoldsTimeline
    /\ status_read' = Some([total |-> Len(timeline),
                            queued |-> CountStatus(timeline, "queued"),
                            is_speaking |-> is_speaking,
                            mqtt_status |-> mqtt_status,
                            speaking |-> CountStatus(timeline, "speaking"),
                            synthesis |-> synth # {}])
    /\ UNCHANGED <<response, view, dropped, missed>>
    /\ UNCHANGED <<tvars, wvars, hvars, mvars, fvars>>
    /\ UNCHANGED lvars

----------------------------------------------------------------------------
(* Playback worker: process_queue *)

\* a worker that takes the newest queued entry
PickLast(tl) ==
    IF \E i \in 1..Len(tl) : IsQueued(tl[i])
    THEN CHOOSE i \in 1..Len(tl) :
            IsQueued(tl[i]) /\ \A j \in (i + 1)..Len(tl) : ~IsQueued(tl[j])
    ELSE 0

\* which queued entry the worker takes
PickIndex(tl) == FindQueued(tl)

\* lock timeline; find the first queued entry, mark it speaking, clone it
WorkerPick ==
    /\ pc = "pick"
    /\ LET i == PickIndex(timeline) IN
        IF i = 0
        THEN UNCHANGED <<timeline, entry, pc>>
        ELSE /\ timeline' = SetStatus(timeline, i, "speaking")
             /\ entry' = Some(timeline'[i])
             /\ pc' = "flag_on"
    /\ UNCHANGED <<next_id, is_speaking, inflight, synth, nextUid, issued>>
    /\ UNCHANGED <<wvars, hvars, mvars>>
    /\ UNCHANGED fvars
    /\ UNCHANGED xvars
    /\ UNCHANGED lvars

\* *is_speaking = true; update_tray_icon(&state, true)
WorkerFlagOn ==
    /\ pc = "flag_on"
    /\ is_speaking' = TRUE
    /\ pc' = "speak"
    /\ UNCHANGED <<timeline, next_id, inflight, entry, synth, nextUid, issued>>
    /\ UNCHANGED <<wvars, hvars, mvars>>
    /\ UNCHANGED fvars
    /\ UNCHANGED xvars
    /\ UNCHANGED lvars

\* where the worker goes once the child is spawned
AfterSpawn == "wait"

\* speak_text: Command::spawn() succeeds and the child runs
WorkerSpawn ==
    /\ pc = "speak"
    /\ synth' = synth \cup {entry[1].uid}
    /\ pc' = AfterSpawn
    /\ UNCHANGED <<timeline, next_id, is_speaking, inflight, entry, nextUid, issued>>
    /\ UNCHANGED <<wvars, hvars, mvars>>
    /\ UNCHANGED fvars
    /\ UNCHANGED xvars
    /\ UNCHANGED lvars

\* speak_text: Command::spawn() fails, and_then is skipped
WorkerSpawnFail ==
    /\ pc = "speak"
    /\ pc' = "spawn_failed"
    /\ UNCHANGED <<timeline, next_id, is_speaking, inflight, entry, synth, nextUid, issued>>
    /\ UNCHANGED <<wvars, hvars, mvars>>
    /\ UNCHANGED fvars
    /\ UNCHANGED xvars
    /\ UNCHANGED lvars

\* child.wait() returns: the synthesizer has finished
WorkerWait ==
    /\ pc = "wait"
    /\ synth' = synth \ {entry[1].uid}
    /\ pc' = "mark_done"
    /\ UNCHANGED <<timeline, next_id, is_speaking, inflight, entry, nextUid, issued>>
    /\ UNCHANGED <<wvars, hvars, mvars>>
    /\ UNCHANGED fvars
    /\ UNCHANGED xvars
    /\ UNCHANGED lvars

\* the entry the worker marks done
DoneIndex(tl, e) == FindById(tl, e.id)

\* lock timeline; find(|e| e.id == entry.id) and mark it done
WorkerMarkDone ==
    /\ pc \in {"mark_done", "spawn_failed"}
    /\ LET i == DoneIndex(timeline, entry[1]) IN
        timeline' = IF i = 0 THEN timeline ELSE SetStatus(timeline, i, "done")
    /\ pc' = "flag_off"
    /\ UNCHANGED <<next_id, is_speaking, inflight, entry, synth, nextUid, issued>>
    /\ UNCHANGED <<wvars, hvars, mvars>>
    /\ UNCHANGED fvars
    /\ UNCHANGED xvars
    /\ UNCHANGED lvars

\* *is_speaking = false; update_tray_icon(&state, false); sleep 100 ms
WorkerFlagOff ==
    /\ pc = "flag_off"
    /\ is_speaking' = FALSE
    /\ entry' = None
    /\ pc' = "pick"
    /\ UNCHANGED <<timeline, next_id, inflight, synth, nextUid, issued>>
    /\ UNCHANGED <<wvars, hvars, mvars>>
    /\ UNCHANGED fvars
    /\ UNCHANGED xvars
    /\ UNCHANGED lvars

----------------------------------------------------------------------------
(* Session watcher: the loop of start_session_watcher *)

APPROVAL_TIMEOUT_SECS == 15
\* last_approval_notify: t.elapsed() > Duration::from_secs(10)
APPROVAL_DEBOUNCE_SECS == 10
\* last_completion_notify: t.elapsed() > Duration::from_secs(2)
COMPLETION_DEBOUNCE_SECS == 2

\* paths one notify event carries, at most
MaxPaths == 1

PermissionMode == {"SkipAll", "AutoAcceptEdits", "Normal"}

\* the values check_new_lines returns
LineEvent ==
    { [kind |-> "None"], [kind |-> "Completion"], [kind |-> "ToolResult"],
      [kind |-> "SubagentSpawn", desc |-> "agent"],
      [kind |-> "ToolUse", needs_approval |-> TRUE],
      [kind |-> "ToolUse", needs_approval |-> FALSE] }

CompletionText == "Claude Stop"
ApprovalText == "Action needed, please approve"
\* format!("Spawning {}", desc)
SpawnText(desc) == "Spawning " \o desc

\* an Instant one second later: its age, kept up to one past the threshold
\* it is compared with
Older(o, threshold) ==
    IF o = None THEN None
    ELSE Some(IF o[1] <= threshold THEN o[1] + 1 ELSE o[1])

\* a debounce that lets an announcement through at the threshold itself
NotifyAtThreshold(last, d) == IF last = None THEN TRUE ELSE last[1] >= d

\* last.map(|t| t.elapsed() > Duration::from_secs(d)).unwrap_or(true)
should_notify(last, d) == IF last = None THEN TRUE ELSE last[1] > d

\* the 3 s timer of the module's header comment
TimedOutEarly(t) == t > 3

\* a timeout no longer than the debounce of the announcements
TimedOutWithinDebounce(t) == t > APPROVAL_DEBOUNCE_SECS - 1

\* t.elapsed() > Duration::from_secs(APPROVAL_TIMEOUT_SECS)
TimedOut(t) == t > APPROVAL_TIMEOUT_SECS

\* history: the followed ToolUse one second later, dropped once a ToolResult
\* would no longer come less than the timeout after it
OlderProbe(o) ==
    IF o = None THEN None
    ELSE IF o[1].age + 1 >= APPROVAL_TIMEOUT_SECS THEN None
    ELSE Some([o[1] EXCEPT !.age = @ + 1])

\* history: an approval announcement is enqueued while the ToolUse is followed
Announced(o) == IF o = None THEN None ELSE Some([o[1] EXCEPT !.announced = TRUE])

\* ids left in the model's id budget
IdsLeft == MaxId + 1 - next_id

\* one second passes
Tick ==
    /\ pending_tool_use' = Older(pending_tool_use, APPROVAL_TIMEOUT_SECS)
    /\ last_approval_notify' = Older(last_approval_notify, APPROVAL_DEBOUNCE_SECS)
    /\ last_completion_notify' = Older(last_completion_notify, COMPLETION_DEBOUNCE_SECS)
    /\ probe' = OlderProbe(probe)
    /\ <<pending_tool_use', last_approval_notify', last_completion_notify', probe'>>
       # <<pending_tool_use, last_approval_notify, last_completion_notify, probe>>
    /\ UNCHANGED <<perm_mode, wpc, paths_left, resolved, stale, cleared_by>>
    /\ UNCHANGED tvars
    /\ UNCHANGED mvars
    /\ UNCHANGED fvars
    /\ UNCHANGED xvars
    /\ UNCHANGED lvars

\* queue_voice, first half: the id from next_id and the entry
queue_voice(text, rate) == AllocId("watcher", WatcherEntry(next_id, text, rate), None)

\* the watcher thread is between two calls of queue_voice
WatcherReady == InflightOf("watcher") = {}

\* rx.recv_timeout(500 ms) returns Err(Timeout)
WatcherRecvTimeout ==
    /\ wpc = "recv"
    /\ wpc' = "check"
    /\ resolved' = None
    /\ UNCHANGED <<perm_mode, pending_tool_use, last_completion_notify,
                   last_approval_notify, paths_left>>
    /\ UNCHANGED <<probe, stale, cleared_by>>
    /\ UNCHANGED tvars
    /\ UNCHANGED mvars
    /\ UNCHANGED fvars
    /\ missed' = FALSE
    /\ UNCHANGED <<response, view, status_read, dropped>>
    /\ UNCHANGED lvars

\* whether the timer check looks at the pending approval in this mode
ChecksTimer(mode) == mode = "Normal"

\* the approval the timer check would act on
Expired ==
    /\ ChecksTimer(perm_mode)
    /\ pending_tool_use # None
    /\ TimedOut(pending_tool_use[1])

\* continue: the next iteration starts at recv_timeout
AfterSkipped == "recv"

\* an event whose kind is neither Modify nor Create: continue
WatcherRecvSkipped ==
    /\ wpc = "recv"
    /\ wpc' = AfterSkipped
    /\ resolved' = None
    /\ missed' = (Expired /\ wpc' = "recv")
    /\ UNCHANGED <<perm_mode, pending_tool_use, last_completion_notify,
                   last_approval_notify, paths_left>>
    /\ UNCHANGED <<probe, stale, cleared_by>>
    /\ UNCHANGED tvars
    /\ UNCHANGED mvars
    /\ UNCHANGED fvars
    /\ UNCHANGED <<response, view, status_read, dropped>>
    /\ UNCHANGED lvars

\* Ok(Err(_)) or Err(Disconnected): break, the thread ends
WatcherRecvError ==
    /\ wpc = "recv"
    /\ wpc' = "stopped"
    /\ resolved' = None
    /\ UNCHANGED <<perm_mode, pending_tool_use, last_completion_notify,
                   last_approval_notify, paths_left>>
    /\ UNCHANGED <<probe, stale, cleared_by>>
    /\ UNCHANGED tvars
    /\ UNCHANGED mvars
    /\ UNCHANGED fvars
    /\ missed' = FALSE
    /\ UNCHANGED <<response, view, status_read, dropped>>
    /\ UNCHANGED lvars

\* a Modify or Create event with n paths: for path in &event.paths
WatcherRecvEvent(n) ==
    /\ wpc = "recv"
    /\ wpc' = "paths"
    /\ paths_left' = n
    /\ resolved' = None
    /\ UNCHANGED <<perm_mode, pending_tool_use, last_completion_notify,
                   last_approval_notify>>
    /\ UNCHANGED <<probe, stale, cleared_by>>
    /\ UNCHANGED tvars
    /\ UNCHANGED mvars
    /\ UNCHANGED fvars
    /\ missed' = FALSE
    /\ UNCHANGED <<response, view, status_read, dropped>>
    /\ UNCHANGED lvars

\* a settings read that leaves the pending approval alone
SettingsPendingKept(mode, pending) == pending

\* what a settings read does to the pending approval
SettingsPending(mode, pending) == IF mode = "SkipAll" THEN None ELSE pending

\* path == settings_file: perm_mode = read_permission_mode(); clear on SkipAll
WatcherPathSettings(mode) ==
    /\ wpc = "paths" /\ paths_left > 0 /\ WatcherReady
    /\ paths_left' = paths_left - 1
    /\ perm_mode' = mode
    /\ pending_tool_use' = SettingsPending(mode, pending_tool_use)
    /\ stale' = IF mode = "SkipAll" THEN pending_tool_use' # None ELSE stale
    /\ cleared_by' = IF pending_tool_use # None /\ pending_tool_use' = None
                     THEN "mode" ELSE cleared_by
    /\ UNCHANGED <<last_completion_notify, last_approval_notify, wpc>>
    /\ UNCHANGED <<probe, resolved>>
    /\ UNCHANGED tvars
    /\ UNCHANGED mvars
    /\ UNCHANGED fvars
    /\ UNCHANGED xvars
    /\ UNCHANGED lvars

\* LineEvent::Completion
HandleCompletion ==
    /\ pending_tool_use' = None
    /\ cleared_by' = IF pending_tool_use # None THEN "event" ELSE cleared_by
    /\ IF should_notify(last_completion_notify, COMPLETION_DEBOUNCE_SECS)
       THEN /\ last_completion_notify' = Some(0)
            /\ queue_voice(CompletionText, 220)
       ELSE UNCHANGED <<last_completion_notify, next_id, issued, inflight>>
    /\ UNCHANGED <<probe, resolved, stale>>

\* a spawn handler that also drops the pending approval
HandleSubagentSpawnClears(desc) ==
    /\ IdsLeft >= (IF pending_tool_use = None THEN 1 ELSE 2)
    /\ queue_voice(SpawnText(desc), 230)
    /\ pending_tool_use' = None
    /\ UNCHANGED last_completion_notify
    /\ UNCHANGED hvars

\* LineEvent::SubagentSpawn(desc)
HandleSubagentSpawn(desc) ==
    /\ IdsLeft >= (IF pending_tool_use = None THEN 1 ELSE 2)
    /\ queue_voice(SpawnText(desc), 230)
    /\ UNCHANGED <<pending_tool_use, last_completion_notify>>
    /\ UNCHANGED hvars

\* a ToolUse that restarts the timer of an approval already pending
StartsTimerAgain(mode, needs_approval, pending) ==
    mode = "Normal" /\ needs_approval

\* whether a ToolUse starts the approval timer
StartsTimer(mode, needs_approval, pending) ==
    mode = "Normal" /\ needs_approval /\ pending = None

\* history: a gating ToolUse may become the followed one when none is
StartProbe(needs_approval) ==
    \/ probe' = probe
    \/ /\ needs_approval /\ probe = None
       /\ probe' = Some([age |-> 0, fresh |-> pending_tool_use = None,
                         announced |-> FALSE])

\* LineEvent::ToolUse(needs_approval)
HandleToolUse(needs_approval) ==
    /\ IF StartsTimer(perm_mode, needs_approval, pending_tool_use)
       THEN /\ IdsLeft >= 1
            /\ pending_tool_use' = Some(0)
            /\ stale' = FALSE
            /\ cleared_by' = "none"
       ELSE UNCHANGED <<pending_tool_use, stale, cleared_by>>
    /\ StartProbe(needs_approval)
    /\ UNCHANGED <<last_completion_notify, next_id, issued, inflight, resolved>>

\* what a ToolResult does to the pending approval
ResultPending(pending) == None

\* LineEvent::ToolResult
HandleToolResult ==
    /\ pending_tool_use' = ResultPending(pending_tool_use)
    /\ cleared_by' = IF pending_tool_use # None /\ pending_tool_use' = None
                     THEN "event" ELSE cleared_by
    /\ resolved' = IF probe = None THEN None
                   ELSE Some([fresh |-> probe[1].fresh, announced |-> probe[1].announced,
                              pending |-> pending_tool_use'])
    /\ probe' = None
    /\ UNCHANGED <<last_completion_notify, next_id, issued, inflight, stale>>

\* LineEvent::None, or a path that is neither settings.json nor *.jsonl
HandleNone ==
    /\ UNCHANGED <<pending_tool_use, last_completion_notify, next_id, issued, inflight>>
    /\ UNCHANGED hvars

\* a *.jsonl path: match check_new_lines(path, &mut file_positions)
WatcherPathLine(ev) ==
    /\ wpc = "paths" /\ paths_left > 0 /\ WatcherReady
    /\ paths_left' = paths_left - 1
    /\ CASE ev.kind = "Completion" -> HandleCompletion
         [] ev.kind = "SubagentSpawn" -> HandleSubagentSpawn(ev.desc)
         [] ev.kind = "ToolUse" -> HandleToolUse(ev.needs_approval)
         [] ev.kind = "ToolResult" -> HandleToolResult
         [] OTHER -> HandleNone
    /\ UNCHANGED <<perm_mode, last_approval_notify, wpc>>
    /\ UNCHANGED <<timeline, nextUid, workervars>>
    /\ UNCHANGED mvars
    /\ UNCHANGED fvars
    /\ UNCHANGED xvars
    /\ UNCHANGED lvars

\* the for loop over event.paths is over
WatcherPathsDone ==
    /\ wpc = "paths" /\ paths_left = 0 /\ WatcherReady
    /\ wpc' = "check"
    /\ UNCHANGED <<perm_mode, pending_tool_use, last_completion_notify,
                   last_approval_notify, paths_left>>
    /\ UNCHANGED hvars
    /\ UNCHANGED tvars
    /\ UNCHANGED mvars
    /\ UNCHANGED fvars
    /\ UNCHANGED xvars
    /\ UNCHANGED lvars

\* the approval timeout check at the end of every loop iteration
WatcherCheck ==
    /\ wpc = "check" /\ WatcherReady
    /\ wpc' = "recv"
    /\ IF ChecksTimer(perm_mode) /\ pending_tool_use # None
          /\ TimedOut(pending_tool_use[1])
       THEN /\ pending_tool_use' = None
            /\ IF should_notify(last_approval_notify, APPROVAL_DEBOUNCE_SECS)
               THEN /\ last_approval_notify' = Some(0)
                    /\ queue_voice(ApprovalText, 240)
                    /\ cleared_by' = "announced"
                    /\ probe' = Announced(probe)
               ELSE /\ cleared_by' = "suppressed"
                    /\ UNCHANGED <<last_approval_notify, next_id, issued, inflight,
                                   probe>>
       ELSE UNCHANGED <<pending_tool_use, last_approval_notify, next_id, issued,
                        inflight, cleared_by, probe>>
    /\ UNCHANGED <<perm_mode, last_completion_notify, paths_left>>
    /\ UNCHANGED <<resolved, stale>>
    /\ UNCHANGED <<timeline, nextUid, workervars>>
    /\ UNCHANGED mvars
    /\ UNCHANGED fvars
    /\ UNCHANGED xvars
    /\ UNCHANGED lvars

\* the watcher thread, its pushes and the clock
WatcherNext ==
    \/ Tick
    \/ WatcherRecvTimeout
    \/ WatcherRecvSkipped
    \/ WatcherRecvError
    \/ \E n \in 0..MaxPaths : WatcherRecvEvent(n)
    \/ \E mode \in PermissionMode : WatcherPathSettings(mode)
    \/ \E ev \in LineEvent : WatcherPathLine(ev)
    \/ WatcherPathsDone
    \/ WatcherCheck
    \/ EnqueuePush

----------------------------------------------------------------------------
(* MQTT session manager: start_mqtt_client and run_mqtt_session *)

\* versions the configuration file goes through
MaxCfg == 2

\* a configuration change: the file is saved, then the reconnect flag is raised
ConfigChange ==
    /\ cfg_file < MaxCfg
    /\ cfg_file' = cfg_file + 1
    /\ mqtt_reconnect' = TRUE
    /\ UNCHANGED <<mqtt_status, mpc, config>>
    /\ UNCHANGED <<tvars, wvars, hvars>>
    /\ UNCHANGED fvars
    /\ UNCHANGED xvars
    /\ UNCHANGED lvars

\* what the top of the manager loop writes to the reconnect flag
ResetFlag(flag) == FALSE

\* loop top of start_mqtt_client: *flag = false
ManagerReset ==
    /\ mpc = "reset"
    /\ mqtt_reconnect' = ResetFlag(mqtt_reconnect)
    /\ mpc' = "connect"
    /\ UNCHANGED <<mqtt_status, config, cfg_file>>
    /\ UNCHANGED <<tvars, wvars, hvars>>
    /\ UNCHANGED fvars
    /\ UNCHANGED xvars
    /\ UNCHANGED lvars

\* run_mqtt_session: *mqtt_status = "connecting"; update_tray_icon;
\* a new session has dropped nothing
SessionConnecting ==
    /\ mpc = "connect"
    /\ mqtt_status' = "connecting"
    /\ mpc' = "subscribe"
    /\ UNCHANGED <<mqtt_reconnect, config, cfg_file>>
    /\ UNCHANGED <<tvars, wvars, hvars>>
    /\ UNCHANGED fvars
    /\ dropped' = FALSE
    /\ UNCHANGED <<response, view, status_read, missed>>
    /\ UNCHANGED lvars

\* client.subscribe(..).await is Ok; the online status is published
SessionSubscribe ==
    /\ mpc = "subscribe"
    /\ mpc' = "poll_check"
    /\ UNCHANGED <<mqtt_status, mqtt_reconnect, config, cfg_file>>
    /\ UNCHANGED <<tvars, wvars, hvars>>
    /\ UNCHANGED fvars
    /\ UNCHANGED xvars
    /\ UNCHANGED lvars

\* client.subscribe(..).await is Err: disconnected, return
SessionSubscribeError ==
    /\ mpc = "subscribe"
    /\ mqtt_status' = "disconnected"
    /\ mpc' = "after"
    /\ UNCHANGED <<mqtt_reconnect, config, cfg_file>>
    /\ UNCHANGED <<tvars, wvars, hvars>>
    /\ UNCHANGED fvars
    /\ UNCHANGED xvars
    /\ UNCHANGED lvars

\* top of the event loop: the reconnect flag is read
SessionCheckReconnect ==
    /\ mpc = "poll_check" /\ MqttReady
    /\ mpc' = IF mqtt_reconnect THEN "after" ELSE "poll_wait"
    /\ UNCHANGED <<mqtt_status, mqtt_reconnect, config, cfg_file>>
    /\ UNCHANGED <<tvars, wvars, hvars>>
    /\ UNCHANGED fvars
    /\ UNCHANGED xvars
    /\ UNCHANGED lvars

\* a session that ends at a payload that does not parse
ParseErrorEnds == "after"

\* Err(e) => eprintln!: the match arm ends and the loop goes on
AfterParseError == "poll_check"

\* Publish on the speak topic: the payload is parsed, Ok(req) is enqueued,
\* Err(e) is logged
SessionPublish(p) ==
    /\ mpc = "poll_wait"
    /\ IF from_slice(p) # None
       THEN /\ mqtt_queue(from_slice(p)[1])
            /\ mpc' = "poll_check"
            /\ UNCHANGED dropped
       ELSE /\ mpc' = AfterParseError
            /\ dropped' = TRUE
            /\ UNCHANGED <<next_id, issued, inflight>>
    /\ UNCHANGED <<mqtt_status, mqtt_reconnect, config, cfg_file>>
    /\ UNCHANGED <<timeline, nextUid, workervars>>
    /\ UNCHANGED <<wvars, hvars>>
    /\ UNCHANGED fvars
    /\ UNCHANGED <<response, view, status_read, missed>>
    /\ UNCHANGED lvars

\* a Publish on another topic, any other event, or the 100 ms timeout
SessionNoOp ==
    /\ mpc = "poll_wait"
    /\ mpc' = "poll_check"
    /\ UNCHANGED <<mqtt_status, mqtt_reconnect, config, cfg_file>>
    /\ UNCHANGED <<tvars, wvars, hvars>>
    /\ UNCHANGED fvars
    /\ UNCHANGED xvars
    /\ UNCHANGED lvars

\* Packet::ConnAck
SessionConnAck ==
    /\ mpc = "poll_wait"
    /\ mqtt_status' = "connected"
    /\ mpc' = "poll_check"
    /\ UNCHANGED <<mqtt_reconnect, config, cfg_file>>
    /\ UNCHANGED <<tvars, wvars, hvars>>
    /\ UNCHANGED fvars
    /\ UNCHANGED xvars
    /\ UNCHANGED lvars

\* Ok(Err(e)): disconnected, return
SessionError ==
    /\ mpc = "poll_wait"
    /\ mqtt_status' = "disconnected"
    /\ mpc' = "after"
    /\ UNCHANGED <<mqtt_reconnect, config, cfg_file>>
    /\ UNCHANGED <<tvars, wvars, hvars>>
    /\ UNCHANGED fvars
    /\ UNCHANGED xvars
    /\ UNCHANGED lvars

\* a manager that goes on without the retry delay
NoDelay(should_reconnect) == "load"

\* if should_reconnect { config = load_mqtt_config() } else { sleep(5 s) }
AfterSession(should_reconnect) == IF should_reconnect THEN "load" ELSE "sleep"

\* after the session: should_reconnect is read
ManagerAfter ==
    /\ mpc = "after"
    /\ mpc' = AfterSession(mqtt_reconnect)
    /\ UNCHANGED <<mqtt_status, mqtt_reconnect, config, cfg_file>>
    /\ UNCHANGED <<tvars, wvars, hvars>>
    /\ UNCHANGED fvars
    /\ UNCHANGED xvars
    /\ UNCHANGED lvars

\* config = load_mqtt_config()
ManagerLoad ==
    /\ mpc = "load"
    /\ config' = cfg_file
    /\ mpc' = "reset"
    /\ UNCHANGED <<mqtt_status, mqtt_reconnect, cfg_file>>
    /\ UNCHANGED <<tvars, wvars, hvars>>
    /\ UNCHANGED fvars
    /\ UNCHANGED xvars
    /\ UNCHANGED lvars

\* tokio::time::sleep(5 s) is over
ManagerSleep ==
    /\ mpc = "sleep"
    /\ mpc' = "reset"
    /\ UNCHANGED <<mqtt_status, mqtt_reconnect, config, cfg_file>>
    /\ UNCHANGED <<tvars, wvars, hvars>>
    /\ UNCHANGED fvars
    /\ UNCHANGED xvars
    /\ UNCHANGED lvars

\* one step of the manager task
ManagerStep ==
    \/ ManagerReset
    \/ SessionConnecting
    \/ SessionSubscribe
    \/ SessionSubscribeError
    \/ SessionCheckReconnect
    \/ \E p \in Payloads : SessionPublish(p)
    \/ SessionNoOp
    \/ SessionConnAck
    \/ SessionError
    \/ ManagerAfter
    \/ ManagerLoad
    \/ ManagerSleep

\* the manager, the broker, the configuration changes and the pushes
MqttNext ==
    \/ ConfigChange
    \/ ManagerStep
    \/ EnqueuePush

----------------------------------------------------------------------------
(* Log tail classifier: check_new_lines on one session log *)

\* lines the log file holds, at most
MaxLines == 3

APPROVAL_TOOLS == {"Bash", "Edit", "Write", "MultiEdit", "NotebookEdit"}

\* the lines a session log is made of: the JSON type, whether the text holds
\* "tool_result", the stop_reason ("none" when the text holds no stop_reason),
\* the names of the tool_use items and the description of a Task item
LogLines ==
    { [type |-> "user", tool_result |-> TRUE, stop_reason |-> "none",
       tools |-> <<>>, desc |-> None],
      [type |-> "user", tool_result |-> FALSE, stop_reason |-> "none",
       tools |-> <<>>, desc |-> None],
      [type |-> "assistant", tool_result |-> FALSE, stop_reason |-> "end_turn",
       tools |-> <<>>, desc |-> None],
      [type |-> "assistant", tool_result |-> FALSE, stop_reason |-> "tool_use",
       tools |-> <<"Bash">>, desc |-> None],
      [type |-> "assistant", tool_result |-> FALSE, stop_reason |-> "tool_use",
       tools |-> <<"Read">>, desc |-> None],
      [type |-> "assistant", tool_result |-> FALSE, stop_reason |-> "tool_use",
       tools |-> <<"Task">>, desc |-> None] }

\* the line as the file holds it: historical when it was there before the
\* classifier first saw the file
Written(l, historical) ==
    [type |-> l.type, tool_result |-> l.tool_result, stop_reason |-> l.stop_reason,
     tools |-> l.tools, desc |-> l.desc, historical |-> historical]

\* line.contains("tool_result") && line.contains("\"type\":\"user\"")
IsToolResult(l) == l.tool_result /\ l.type = "user"

\* extract_task_spawn: the description of a Task item, "agent" when it has none
extract_task_spawn(l) ==
    IF \E i \in 1..Len(l.tools) : l.tools[i] = "Task"
    THEN Some(unwrap_or(l.desc, "agent"))
    ELSE None

\* extract_tool_names(..).iter().any(|name| APPROVAL_TOOLS.contains(name))
needs_approval(l) == \E i \in 1..Len(l.tools) : l.tools[i] \in APPROVAL_TOOLS

RECURSIVE scan_lines(_, _)
\* for line in new_content.lines() { .. } result
scan_lines(lines, result) ==
    IF lines = <<>> THEN result
    ELSE LET l == Head(lines)
             rest == Tail(lines)
         IN  IF IsToolResult(l) THEN [kind |-> "ToolResult"]
             ELSE IF l.stop_reason = "none" THEN scan_lines(rest, result)
             ELSE IF l.type # "assistant" THEN scan_lines(rest, result)
             ELSE IF l.stop_reason = "end_turn"
                  THEN scan_lines(rest, [kind |-> "Completion"])
             ELSE IF l.stop_reason = "tool_use"
                  THEN IF extract_task_spawn(l) # None
                       THEN [kind |-> "SubagentSpawn",
                             desc |-> extract_task_spawn(l)[1]]
                       ELSE scan_lines(rest, [kind |-> "ToolUse",
                                              needs_approval |-> needs_approval(l)])
             ELSE scan_lines(rest, result)

\* the classification of the lines read
classify(lines) == scan_lines(lines, [kind |-> "None"])

\* a cursor that is left where it is when the file is shorter
KeepCursor(pos, size) == pos

\* if file_size < *pos { *pos = 0 }
ResetCursor(pos, size) == IF size < pos THEN 0 ELSE pos

\* a first observation that starts at the beginning of the file
SeedAtStart(size) == 0

\* positions.entry(path).or_insert(file_size)
SeedCursor(size) == size

\* another process appends a line to the log
FileAppend(l) ==
    /\ Len(file) < MaxLines
    /\ file' = Append(file, Written(l, file_positions = None))
    /\ new_content' = <<>>
    /\ returned' = None
    /\ UNCHANGED <<file_positions, tpc, file_size, truncated, classified>>
    /\ UNCHANGED <<tvars, wvars, hvars, mvars>>
    /\ UNCHANGED xvars
    /\ UNCHANGED lvars

\* another process truncates the log to its first k lines (0: rotation)
FileTruncate(k) ==
    /\ k < Len(file)
    /\ file' = SubSeq(file, 1, k)
    /\ new_content' = <<>>
    /\ returned' = None
    /\ classified' = None
    /\ UNCHANGED <<file_positions, tpc, file_size, truncated>>
    /\ UNCHANGED <<tvars, wvars, hvars, mvars>>
    /\ UNCHANGED xvars
    /\ UNCHANGED lvars

\* File::open or file.metadata() fails: return LineEvent::None
TailOpenFail ==
    /\ tpc = "idle"
    /\ returned' = Some([kind |-> "None"])
    /\ new_content' = <<>>
    /\ truncated' = FALSE
    /\ UNCHANGED <<file, file_positions, tpc, file_size, classified>>
    /\ UNCHANGED <<tvars, wvars, hvars, mvars>>
    /\ UNCHANGED xvars
    /\ UNCHANGED lvars

\* open, metadata, the cursor's entry, the truncation reset, the early return
\* when file_size == *pos
TailStat ==
    /\ tpc = "idle"
    /\ LET size == Len(file)
           pos == ResetCursor(unwrap_or(file_positions, SeedCursor(size)), size)
       IN  /\ file_positions' = Some(pos)
           /\ truncated' = (size < unwrap_or(file_positions, SeedCursor(size)))
           /\ new_content' = <<>>
           /\ IF size = pos
              THEN /\ returned' = Some([kind |-> "None"])
                   /\ UNCHANGED <<tpc, file_size>>
              ELSE /\ returned' = None
                   /\ tpc' = "read"
                   /\ file_size' = size
    /\ UNCHANGED <<file, classified>>
    /\ UNCHANGED <<tvars, wvars, hvars, mvars>>
    /\ UNCHANGED xvars
    /\ UNCHANGED lvars

\* the farthest line the scans reached, after one that starts behind line pos
ScannedTo(c, pos, lines) ==
    IF c = None \/ lines = <<>> THEN c
    ELSE Some(IF pos + Len(lines) > c[1] THEN pos + Len(lines) ELSE c[1])

\* seek(*pos), read_to_string to the end of the file as it is now,
\* *pos = file_size, the scan of the lines
TailRead ==
    /\ tpc = "read"
    /\ new_content' = SubSeq(file, file_positions[1] + 1, Len(file))
    /\ file_positions' = Some(file_size)
    /\ returned' = Some(classify(new_content'))
    /\ tpc' = "idle"
    /\ file_size' = 0
    /\ classified' = ScannedTo(classified, file_positions[1], new_content')
    /\ UNCHANGED <<file, truncated>>
    /\ UNCHANGED <<tvars, wvars, hvars, mvars>>
    /\ UNCHANGED xvars
    /\ UNCHANGED lvars

\* the log's writers and the classifier
TailNext ==
    \/ \E l \in LogLines : FileAppend(l)
    \/ \E k \in 0..MaxLines : FileTruncate(k)
    \/ TailOpenFail
    \/ TailStat
    \/ TailRead

----------------------------------------------------------------------------
(* The mutexes of AppState and the routines that take them *)

\* the Mutex fields of AppState
Locks ==
    {"timeline", "next_id", "is_speaking", "mqtt_status", "mqtt_reconnect",
     "disconnected_icon", "speaking_icon", "idle_icon", "tray_icon"}

\* the playback worker, the broker session task, a status command of the
\* window and a handler of the HTTP server
LockThreads == {"worker", "session", "status", "http"}

\* the operations of a routine: Mutex::lock returning the guard, the guard
\* going out of scope, and a call that takes no lock
Lock(l) == <<"lock", l>>
Unlock(l) == <<"unlock", l>>
Call(f) == <<"call", f>>

\* lib.rs update_tray_icon(speaking): the tray handle's guard is held while
\* the icon is cloned
lib_update_tray_icon(speaking) ==
    LET icon == IF speaking THEN "speaking_icon" ELSE "idle_icon" IN
    <<Lock("tray_icon"), Lock(icon), Unlock(icon), Unlock("tray_icon")>>

\* tray.rs update_tray_icon(speaking): each guard is dropped at the end of
\* its match, before the next lock; connected is what mqtt_status read
tray_update_tray_icon(connected, speaking) ==
    LET icon == IF ~connected THEN "disconnected_icon"
                ELSE IF speaking THEN "speaking_icon" ELSE "idle_icon" IN
    <<Lock("mqtt_status"), Unlock("mqtt_status"), Lock(icon), Unlock(icon),
      Lock("tray_icon"), Unlock("tray_icon")>>

\* the synthesizer runs: speak_text spawns the child and waits for it
Synthesis == Call("speak_text")

\* a worker that keeps the timeline guard from the pick to the mark-done
process_queue_one_guard ==
    <<Lock("timeline"), Lock("is_speaking"), Unlock("is_speaking")>>
    \o lib_update_tray_icon(TRUE)
    \o <<Synthesis>>
    \o <<Lock("is_speaking"), Unlock("is_speaking"), Unlock("timeline")>>
    \o lib_update_tray_icon(FALSE)

\* lib.rs process_queue, one iteration that finds a queued entry
process_queue_locks ==
    <<Lock("timeline"), Unlock("timeline"),
      Lock("is_speaking"), Unlock("is_speaking")>>
    \o lib_update_tray_icon(TRUE)
    \o <<Synthesis>>
    \o <<Lock("timeline"), Lock("is_speaking"), Unlock("is_speaking"),
         Unlock("timeline")>>
    \o lib_update_tray_icon(FALSE)

\* tray.rs process_queue, one iteration that finds a queued entry; first and
\* second are what the two calls of update_tray_icon read in mqtt_status
tray_process_queue_locks(first, second) ==
    <<Lock("timeline"), Unlock("timeline"),
      Lock("is_speaking"), Unlock("is_speaking")>>
    \o tray_update_tray_icon(first, TRUE)
    \o <<Synthesis>>
    \o <<Lock("timeline"), Unlock("timeline"),
         Lock("is_speaking"), Unlock("is_speaking")>>
    \o tray_update_tray_icon(second, FALSE)

\* get_status and GET /status: the timeline guard lives to the end of the
\* function, the other two guards are temporaries
get_status_locks ==
    <<Lock("timeline"), Lock("is_speaking"), Unlock("is_speaking"),
      Lock("mqtt_status"), Unlock("mqtt_status"), Unlock("timeline")>>

\* get_timeline, GET /timeline, clear_timeline, test_voice
timeline_locks == <<Lock("timeline"), Unlock("timeline")>>

\* POST /speak, queue_voice and the Ok(req) arm of the session: the id under
\* next_id, then the push under timeline
speak_locks ==
    <<Lock("next_id"), Unlock("next_id"), Lock("timeline"), Unlock("timeline")>>

\* run_mqtt_session writes mqtt_status and calls update_tray_icon(false)
session_status_locks(connected) ==
    <<Lock("mqtt_status"), Unlock("mqtt_status")>>
    \o tray_update_tray_icon(connected, FALSE)

\* the reads and the reset of the reconnect flag
reconnect_locks == <<Lock("mqtt_reconnect"), Unlock("mqtt_reconnect")>>

\* the routines a thread runs, one at a time
Routines(t) ==
    CASE t = "worker" ->
            {[fn |-> "process_queue", a |-> FALSE, b |-> FALSE]}
            \cup {[fn |-> "tray_process_queue", a |-> a, b |-> b] : a, b \in BOOLEAN}
      [] t = "session" ->
            {[fn |-> "session_status", a |-> a, b |-> FALSE] : a \in BOOLEAN}
            \cup {[fn |-> "speak", a |-> FALSE, b |-> FALSE],
                  [fn |-> "reconnect", a |-> FALSE, b |-> FALSE]}
      [] t = "status" ->
            {[fn |-> "get_status", a |-> FALSE, b |-> FALSE],
             [fn |-> "timeline", a |-> FALSE, b |-> FALSE]}
      [] t = "http" ->
            {[fn |-> "get_status", a |-> FALSE, b |-> FALSE],
             [fn |-> "timeline", a |-> FALSE, b |-> FALSE],
             [fn |-> "speak", a |-> FALSE, b |-> FALSE]}

\* between two routines
Idle == [fn |-> "idle", a |-> FALSE, b |-> FALSE]

\* the operations of a routine
Ops(r) ==
    CASE r.fn = "process_queue" -> process_queue_locks
      [] r.fn = "tray_process_queue" -> tray_process_queue_locks(r.a, r.b)
      [] r.fn = "session_status" -> session_status_locks(r.a)
      [] r.fn = "speak" -> speak_locks
      [] r.fn = "reconnect" -> reconnect_locks
      [] r.fn = "get_status" -> get_status_locks
      [] r.fn = "timeline" -> timeline_locks
      [] OTHER -> <<>>

\* the operation a thread is at, <<"none", "">> between two routines
OpOf(t) ==
    IF lpc[t].routine = Idle THEN <<"none", "">>
    ELSE Ops(lpc[t].routine)[lpc[t].at]

\* the locks a thread holds
HeldBy(t) == {held[t][i] : i \in 1..Len(held[t])}

\* the thread that holds a lock, if any
Holders(l) == {t \in LockThreads : l \in HeldBy(t)}

\* the thread goes on to its next operation, or is done with the routine
Advance(t) ==
    lpc' = [lpc EXCEPT ![t] =
              IF @.at = Len(Ops(@.routine)) THEN [routine |-> Idle, at |-> 0]
              ELSE [@ EXCEPT !.at = @ + 1]]

\* a thread enters a routine
LockStart(t, r) ==
    /\ lpc[t].routine = Idle
    /\ lpc' = [lpc EXCEPT ![t] = [routine |-> r, at |-> 1]]
    /\ UNCHANGED held
    /\ UNCHANGED <<tvars, wvars, hvars, mvars, fvars, xvars>>

\* Mutex::lock returns: nobody holds the lock
LockAcquire(t) ==
    /\ OpOf(t)[1] = "lock"
    /\ Holders(OpOf(t)[2]) = {}
    /\ held' = [held EXCEPT ![t] = Append(@, OpOf(t)[2])]
    /\ Advance(t)
    /\ UNCHANGED <<tvars, wvars, hvars, mvars, fvars, xvars>>

RECURSIVE Dropped(_, _)
\* the guards a thread holds once the guard of l is dropped
Dropped(s, l) ==
    IF s = <<>> THEN <<>>
    ELSE IF Head(s) = l THEN Tail(s)
    ELSE <<Head(s)>> \o Dropped(Tail(s), l)

\* the guard is dropped
LockRelease(t) ==
    /\ OpOf(t)[1] = "unlock"
    /\ held' = [held EXCEPT ![t] = Dropped(@, OpOf(t)[2])]
    /\ Advance(t)
    /\ UNCHANGED <<tvars, wvars, hvars, mvars, fvars, xvars>>

\* a call that takes no lock returns
LockCall(t) ==
    /\ OpOf(t)[1] = "call"
    /\ Advance(t)
    /\ UNCHANGED held
    /\ UNCHANGED <<tvars, wvars, hvars, mvars, fvars, xvars>>

\* the threads and their locks
LockNext ==
    \/ \E t \in LockThreads : \E r \in Routines(t) : LockStart(t, r)
    \/ \E t \in LockThreads : LockAcquire(t)
    \/ \E t \in LockThreads : LockRelease(t)
    \/ \E t \in LockThreads : LockCall(t)

----------------------------------------------------------------------------
(* The timeline with every enqueue path and the playback worker *)

\* a broker message that parses arrives while a session runs
MqttSpeak(req) ==
    /\ MqttReady
    /\ mqtt_queue(req)
    /\ UNCHANGED <<timeline, nextUid, workervars>>
    /\ UNCHANGED <<wvars, hvars, mvars>>
    /\ UNCHANGED fvars
    /\ UNCHANGED xvars
    /\ UNCHANGED lvars

\* what the watcher announces: the text and the rate
Announcement ==
    { <<CompletionText, 220>>, <<SpawnText("agent"), 230>>, <<ApprovalText, 240>> }

\* the watcher announces
WatcherQueueVoice(a) ==
    /\ WatcherReady
    /\ queue_voice(a[1], a[2])
    /\ UNCHANGED <<timeline, nextUid, workervars>>
    /\ UNCHANGED <<wvars, hvars, mvars>>
    /\ UNCHANGED fvars
    /\ UNCHANGED xvars
    /\ UNCHANGED lvars

Init ==
    /\ timeline = <<>>
    /\ next_id = 1
    /\ is_speaking = FALSE
    /\ inflight = {}
    /\ pc = "pick"
    /\ entry = None
    /\ synth = {}
    /\ nextUid = 1
    /\ issued = <<>>
    /\ perm_mode \in PermissionMode
    /\ pending_tool_use = None
    /\ last_completion_notify = None
    /\ last_approval_notify = None
    /\ wpc = "recv"
    /\ paths_left = 0
    /\ probe = None
    /\ resolved = None
    /\ stale = FALSE
    /\ cleared_by = "none"
    /\ mqtt_status = "disconnected"
    /\ mqtt_reconnect = FALSE
    /\ mpc = "reset"
    /\ config = 0
    /\ cfg_file = 0
    /\ file = <<>>
    /\ file_positions = None
    /\ tpc = "idle"
    /\ file_size = 0
    /\ truncated = FALSE
    /\ new_content = <<>>
    /\ returned = None
    /\ classified = Some(0)
    /\ response = None
    /\ view = None
    /\ status_read = None
    /\ dropped = FALSE
    /\ missed = FALSE
    /\ held = [t \in LockThreads |-> <<>>]
    /\ lpc = [t \in LockThreads |-> [routine |-> Idle, at |-> 0]]

Next ==
    \/ \E req \in Requests : HttpSpeakAlloc(req)
    \/ \E req \in Requests : MqttSpeak(req)
    \/ \E a \in Announcement : WatcherQueueVoice(a)
    \/ EnqueuePush
    \/ test_voice
    \/ clear_timeline
    \/ WorkerPick
    \/ WorkerFlagOn
    \/ WorkerSpawn
    \/ WorkerSpawnFail
    \/ WorkerWait
    \/ WorkerMarkDone
    \/ WorkerFlagOff

Spec == Init /\ [][Next]_vars

\* the session watcher alone with the timeline
SpecWatcher == Init /\ [][WatcherNext]_vars

\* the MQTT manager alone with the timeline
SpecMqtt == Init /\ [][MqttNext]_vars

\* the log tail classifier and the writers of the log
SpecTail == Init /\ [][TailNext]_vars

\* POST /speak next to the tray's test entry and the playback worker
SpeakNext ==
    \/ \E req \in ParsedRequests : HttpSpeakAlloc(req)
    \/ HttpSpeakPush
    \/ test_voice
    \/ WorkerPick
    \/ WorkerFlagOn
    \/ WorkerSpawn
    \/ WorkerSpawnFail
    \/ WorkerWait
    \/ WorkerMarkDone
    \/ WorkerFlagOff

SpecSpeak == Init /\ [][SpeakNext]_vars

\* the HTTP server's handlers and the playback worker
HttpNext ==
    \/ \E req \in ParsedRequests : HttpSpeakAlloc(req)
    \/ HttpSpeakPush
    \/ get_timeline
    \/ WorkerPick
    \/ WorkerFlagOn
    \/ WorkerSpawn
    \/ WorkerSpawnFail
    \/ WorkerWait
    \/ WorkerMarkDone
    \/ WorkerFlagOff

SpecHttp == Init /\ [][HttpNext]_vars

\* the status handler next to POST /speak and the playback worker
StatusNext ==
    \/ \E req \in ParsedRequests : HttpSpeakAlloc(req)
    \/ HttpSpeakPush
    \/ get_status
    \/ WorkerPick
    \/ WorkerFlagOn
    \/ WorkerSpawn
    \/ WorkerSpawnFail
    \/ WorkerWait
    \/ WorkerMarkDone
    \/ WorkerFlagOff

SpecStatus == Init /\ [][StatusNext]_vars

\* the threads taking and dropping the mutexes of AppState
SpecLocks == Init /\ [][LockNext]_vars

\* one step of the process_queue thread
WorkerStep ==
    \/ WorkerPick
    \/ WorkerFlagOn
    \/ WorkerSpawn
    \/ WorkerSpawnFail
    \/ WorkerWait
    \/ WorkerMarkDone
    \/ WorkerFlagOff

\* the worker thread keeps running: its sleep is 100 ms, the locks it takes
\* are held for a few statements, and every synthesizer process ends
SpecWorkerFair == Spec /\ WF_vars(WorkerStep)

\* the watcher thread keeps running, the clock keeps ticking: recv_timeout
\* returns within 500 ms, an event has finitely many paths, queue_voice returns
SpecWatcherFair ==
    /\ SpecWatcher
    /\ WF_vars(Tick)
    /\ WF_vars(WatcherRecvTimeout)
    /\ WF_vars(\E ev \in LineEvent : WatcherPathLine(ev))
    /\ WF_vars(WatcherPathsDone)
    /\ WF_vars(WatcherCheck)
    /\ WF_vars(EnqueuePush)

----------------------------------------------------------------------------
(* The claims *)

SpeakingAt(tl) == {i \in 1..Len(tl) : tl[i].status = "speaking"}

\* C1: at any instant at most one entry of the timeline has status Speaking,
\* whatever the interleaving of the worker, the enqueue paths (test_voice
\* among them) and clear_timeline
C1_AtMostOneSpeaking == Cardinality(SpeakingAt(timeline)) <= 1

\* the entries of tl that tl2 no longer holds
Removed(tl, tl2) ==
    {i \in 1..Len(tl) : \A j \in 1..Len(tl2) : tl2[j].uid # tl[i].uid}

\* C2: after every step the timeline holds at most Capacity entries, and the
\* entries an enqueue removes are older than every entry it keeps
C2_BoundedOldestEvicted ==
    [][/\ Len(timeline') <= Capacity
       /\ (nextUid' # nextUid =>
             \A i \in Removed(timeline, timeline') : \A j \in 1..Len(timeline) :
                j \notin Removed(timeline, timeline')
                    => timeline[i].uid < timeline[j].uid)]_vars

\* C3: the ids given to entries start at 1 and strictly increase in the order
\* they are handed out, so no two entries ever enqueued carry the same id
C3_IdsStrictlyIncreasing ==
    /\ (Len(issued) > 0 => issued[1] = 1)
    /\ \A i, j \in 1..Len(issued) : i < j => issued[i] < issued[j]

StatusStep ==
    { <<"queued", "queued">>, <<"queued", "speaking">>, <<"speaking", "speaking">>,
      <<"speaking", "done">>, <<"done", "done">> }

\* C4: in every step the status of every entry stays or moves one step along
\* Queued, Speaking, Done: never backward, never from Queued to Done
C4_StatusOrder ==
    [][\A i \in 1..Len(timeline) : \A j \in 1..Len(timeline') :
          timeline[i].uid = timeline'[j].uid
              => <<timeline[i].status, timeline'[j].status>> \in StatusStep]_vars

\* C5: the step that follows the synthesizer's end sets the entry the worker
\* spoke, when the timeline still holds it, to Done and changes the status of
\* no other entry
C5_SameEntryDone ==
    [][/\ pc = "mark_done" /\ pc' = "flag_off"
       /\ \E i \in 1..Len(timeline) : timeline[i].uid = entry[1].uid
       => /\ Len(timeline') = Len(timeline)
          /\ \A i \in 1..Len(timeline) :
                IF timeline[i].uid = entry[1].uid
                THEN timeline'[i].status = "done"
                ELSE timeline'[i].status = timeline[i].status]_vars

\* C6: at most one synthesizer runs at a time, and while the worker handles
\* the entry it picked no entry inserted before it is Queued
C6_SerializedInOrder ==
    /\ Cardinality(synth) <= 1
    /\ entry # None =>
          \A i \in 1..Len(timeline) :
              timeline[i].uid < entry[1].uid => timeline[i].status # "queued"

\* the synthesizer runs for one entry while a later entry waits, Queued
C6_Witness ==
    /\ pc = "wait" /\ synth = {entry[1].uid}
    /\ \E i \in 1..Len(timeline) :
          timeline[i].uid > entry[1].uid /\ timeline[i].status = "queued"

\* C7: a gating ToolUse followed by a ToolResult less than 15 seconds later
\* has no approval announcement enqueued between the two, whether or not an
\* approval was pending when it arrived, and the ToolResult leaves no
\* approval pending
C7_NoApprovalBeforeResult ==
    resolved # None => ~resolved[1].announced /\ resolved[1].pending = None

\* C7 amended: a gating ToolUse that arrives while no approval is pending and
\* is followed by a ToolResult less than 15 seconds later has no approval
\* announcement enqueued between the two, and the ToolResult leaves no
\* approval pending
C7_FreshNoApprovalBeforeResult ==
    resolved # None /\ resolved[1].fresh
        => ~resolved[1].announced /\ resolved[1].pending = None

\* a ToolResult arrives less than 15 seconds after a gating ToolUse that
\* started the approval timer in Normal mode
C7_Witness ==
    /\ resolved # None /\ resolved[1].fresh
    /\ perm_mode = "Normal" /\ cleared_by = "event"

\* C8: in Normal mode a pending approval that no ToolResult, Completion or
\* mode change clears is in the end cleared by the timer with its
\* announcement enqueued
C8_ApprovalAnnounced ==
    (pending_tool_use # None /\ perm_mode = "Normal")
        ~> (cleared_by \in {"announced", "event", "mode"} \/ perm_mode # "Normal")

ApprovalInFlight ==
    \E h \in InflightOf("watcher") : h.e.text = ApprovalText

\* C9: no approval announcement is enqueued while the mode is SkipAll, and a
\* settings read that yields SkipAll leaves no approval pending
C9_NoApprovalUnderSkipAll ==
    /\ ApprovalInFlight => perm_mode # "SkipAll"
    /\ ~stale

\* a SkipAll settings read cleared a pending approval and the mode is Normal again
C9_Witness ==
    cleared_by = "mode" /\ pending_tool_use = None /\ perm_mode = "Normal"

\* C10: no configuration-change signal is lost: once the reconnect flag is
\* down again the manager holds the configuration saved with the last signal
C10_NoSignalLost == ~mqtt_reconnect => config = cfg_file

\* the session that ended, ended on a subscribe or connection error: only the
\* error exits of run_mqtt_session write "disconnected"
EndedByError == mpc \in {"after", "load", "sleep"} /\ mqtt_status = "disconnected"

\* C11: a subscribe or connection error sets the status to Disconnected and
\* ends the session; the next session starts only from the 5 s sleep, with the
\* configuration unchanged; the manager always has a next step
C11_ErrorRetriesAfterDelay ==
    /\ [](ENABLED ManagerStep \/ ~MqttReady)
    /\ [][/\ (mpc \in {"subscribe", "poll_wait"} /\ mpc' = "after"
               => mqtt_status' = "disconnected")
          /\ (EndedByError /\ mpc # "reset" /\ mpc' = "reset"
               => mpc = "sleep" /\ config' = config)]_vars

\* C11 amended: as C11, the delay and the unchanged configuration holding
\* when the reconnect flag is down as the manager reads it after the session
C11_ErrorRetriesAfterDelayUnlessSignal ==
    /\ [](ENABLED ManagerStep \/ ~MqttReady)
    /\ [][/\ (mpc \in {"subscribe", "poll_wait"} /\ mpc' = "after"
               => mqtt_status' = "disconnected")
          /\ (EndedByError /\ mpc = "after" /\ ~mqtt_reconnect
               => mpc' \in {"after", "sleep"} /\ config' = config)
          /\ (EndedByError /\ mpc = "sleep"
               => mpc' \in {"sleep", "reset"} /\ config' = config)]_vars

\* a session ended on an error and the manager sleeps before the next one
C11_Witness == EndedByError /\ mpc = "sleep" /\ ~mqtt_reconnect

\* the batch holds a ToolResult line
HasToolResult(lines) == \E i \in 1..Len(lines) : IsToolResult(lines[i])

\* C12: a batch that holds a ToolResult line anywhere is classified ToolResult,
\* whatever Completion, ToolUse or Task lines come before or after it
C12_ToolResultWins ==
    returned # None /\ HasToolResult(new_content)
        => returned[1] = [kind |-> "ToolResult"]

\* an assistant line whose stop_reason is end_turn or tool_use
Qualifies(l) == l.type = "assistant" /\ l.stop_reason \in {"end_turn", "tool_use"}

\* the classification of one qualifying line, a Task invocation being a
\* SubagentSpawn
ClassOf(l) ==
    IF l.stop_reason = "end_turn" THEN [kind |-> "Completion"]
    ELSE IF \E i \in 1..Len(l.tools) : l.tools[i] = "Task"
         THEN [kind |-> "SubagentSpawn", desc |-> unwrap_or(l.desc, "agent")]
    ELSE [kind |-> "ToolUse",
          needs_approval |-> \E i \in 1..Len(l.tools) : l.tools[i] \in APPROVAL_TOOLS]

\* C13: a batch without a ToolResult line is classified as its last qualifying
\* Completion or ToolUse line is, a Task invocation counting as SubagentSpawn
C13_LastQualifyingWins ==
    returned # None /\ ~HasToolResult(new_content)
        => \A i \in 1..Len(new_content) :
              (/\ Qualifies(new_content[i])
               /\ \A j \in (i + 1)..Len(new_content) : ~Qualifies(new_content[j]))
                  => returned[1] = ClassOf(new_content[i])

HasHistorical(lines) == \E i \in 1..Len(lines) : lines[i].historical

\* the first observation of the file: the cursor has no entry yet
FirstObservation == file_positions = None /\ file_positions' # None

\* C15: the first observation sets the cursor to the file's size and returns
\* no event, and no observation ever reads a line that was in the file before
\* the first one
C15_HistoryNeverClassified ==
    /\ [](~HasHistorical(new_content))
    /\ [][FirstObservation
            => /\ file_positions' = Some(Len(file))
               /\ returned' = Some([kind |-> "None"])
               /\ tpc' = "idle"]_vars

\* C15 amended: as C15, for the observations that do not find the file
\* shorter than the cursor
C15_HistoryNotClassifiedUnlessTruncated ==
    /\ [](~truncated => ~HasHistorical(new_content))
    /\ [][FirstObservation
            => /\ file_positions' = Some(Len(file))
               /\ returned' = Some([kind |-> "None"])
               /\ tpc' = "idle"]_vars

\* the file held lines before it was first observed, and a later observation
\* reads the lines appended since
C15_Witness ==
    /\ returned # None /\ new_content # <<>> /\ ~truncated
    /\ HasHistorical(file)

\* the entry the /speak handler owes a request: the text and the agent as sent,
\* the voice and the rate as sent or the documented defaults
Owed(e, id, req) ==
    /\ e.id = id
    /\ e.status = "queued"
    /\ e.text = req.text
    /\ e.agent = req.agent
    /\ e.voice = (IF req.voice = None THEN DefaultVoice ELSE req.voice[1])
    /\ e.rate = (IF req.rate = None THEN DefaultRate ELSE req.rate[1])

\* tl2 is tl after one push_back and the eviction from the front
PushedOne(tl, tl2) ==
    /\ Len(tl2) >= 1
    /\ \E k \in 0..Len(tl) : SubSeq(tl2, 1, Len(tl2) - 1) = SubSeq(tl, k + 1, Len(tl))

\* the shared state outside the timeline store and the id counter
OtherShared == <<is_speaking, mqtt_status, mqtt_reconnect, pc, entry, synth>>

\* C16: POST /speak takes one id from the counter, appends one Queued entry with
\* that id, the request's text and agent and the defaulted voice and rate,
\* answers {id, queued} with the same id whatever the worker is doing, and
\* leaves the rest of the shared state alone
C16_SpeakEnqueuesOnce ==
    /\ [](InflightOf("http") # {} => ENABLED HttpSpeakPush)
    /\ [][/\ \A h \in inflight' \ inflight : h.src = "http" =>
                /\ h.e.id = next_id
                /\ next_id' = next_id + 1
                /\ inflight' = inflight \cup {h}
                /\ timeline' = timeline
                /\ response' = response
                /\ OtherShared' = OtherShared
          /\ \A h \in inflight \ inflight' : h.src = "http" =>
                /\ PushedOne(timeline, timeline')
                /\ Owed(timeline'[Len(timeline')], h.e.id, h.req[1])
                /\ response' = Some([req |-> h.req[1],
                                     body |-> [id |-> h.e.id, status |-> "queued"]])
                /\ next_id' = next_id
                /\ inflight' = inflight \ {h}
                /\ OtherShared' = OtherShared]_vars

\* a request without a rate was answered while the worker waits for the
\* synthesizer of another entry, and its entry is the queued tail of the timeline
C16_Witness ==
    /\ response # None /\ response[1].req.rate = None
    /\ pc = "wait" /\ entry[1].id # response[1].body.id
    /\ Len(timeline) >= 1
    /\ Owed(timeline[Len(timeline)], response[1].body.id, response[1].req)

\* C17: no entry of the timeline has an empty text
C17_NoEmptyText == \A i \in 1..Len(timeline) : timeline[i].text # ""

\* C18: a payload that does not parse leaves the timeline, the id counter, the
\* pending pushes and the connection status as they are and the session in its
\* event loop, and a well-formed payload after it is enqueued
C18_MalformedDropped ==
    [][\A p \in Payloads : SessionPublish(p) =>
          IF from_slice(p) = None
          THEN /\ timeline' = timeline
               /\ next_id' = next_id
               /\ inflight' = inflight
               /\ mqtt_status' = mqtt_status
               /\ mpc' = "poll_check"
          ELSE dropped =>
               \E h \in inflight' \ inflight :
                   /\ h.src = "mqtt"
                   /\ Owed(h.e, next_id, from_slice(p)[1])]_vars

\* the session dropped a payload and took a well-formed one after it
C18_Witness == dropped /\ InflightOf("mqtt") # {} /\ mpc = "poll_check"

\* the entry is where the worker's progress puts it
StatusFollowsWorker(e, worker) ==
    \/ e.status = "queued"
    \/ e.status = "speaking"
          /\ worker \in {"flag_on", "speak", "wait", "mark_done", "spawn_failed"}
    \/ e.status = "done" /\ worker \in {"flag_off", "pick"}

\* the one entry of the GET is the one the POST was answered for
ShowsThePost(entries, post) ==
    /\ Len(entries) = 1
    /\ Owed([entries[1] EXCEPT !.status = "queued"], post.body.id, post.req)

\* C19: a GET /timeline after the first POST /speak has returned shows one
\* entry, the posted one, with status queued
C19_GetShowsQueued ==
    view # None /\ view[1].first_post # None
        => /\ ShowsThePost(view[1].entries, view[1].first_post[1])
           /\ view[1].entries[1].status = "queued"

\* C19 amended: the GET shows one entry, the posted one, queued, speaking or
\* done according to how far the worker has got with it
C19_GetShowsPostedEntry ==
    view # None /\ view[1].first_post # None
        => /\ ShowsThePost(view[1].entries, view[1].first_post[1])
           /\ StatusFollowsWorker(view[1].entries[1], view[1].worker)

\* the GET after the first POST found the entry already taken by the worker
C19_Witness ==
    /\ view # None /\ view[1].first_post # None
    /\ view[1].entries[1].status = "speaking"
    /\ view[1].entries[1].rate = 200

\* C20: no wake of the watcher loop goes back to recv_timeout past an approval
\* that has expired in Normal mode
C20_TimerCheckedEveryWake == ~missed

\* the watcher hands an entry with this text to the store in this step
WatcherAnnounces(text) ==
    \E h \in inflight' \ inflight :
        /\ inflight' = inflight \cup {h}
        /\ h.src = "watcher"
        /\ h.e.text = text

\* more than the completion debounce has passed since the last turn-complete
\* announcement, or there was none
CompletionDue ==
    \/ last_completion_notify = None
    \/ last_completion_notify[1] > COMPLETION_DEBOUNCE_SECS

\* C21: a Completion event clears the pending approval whether or not it is
\* announced, and a turn-complete announcement is enqueued exactly when more
\* than 2 s have passed since the last one, which restarts the debounce
C21_CompletionClearsAndDebounces ==
    [][/\ WatcherPathLine([kind |-> "Completion"])
            => /\ pending_tool_use' = None
               /\ WatcherAnnounces(CompletionText) <=> CompletionDue
       /\ WatcherAnnounces(CompletionText)
            => /\ CompletionDue
               /\ last_completion_notify' = Some(0)]_vars

\* the second turn-complete announcement has just been enqueued
C21_Witness ==
    /\ last_completion_notify = Some(0)
    /\ \E h \in InflightOf("watcher") : h.e.text = CompletionText /\ h.e.id = 2
    /\ \E i \in 1..Len(timeline) : timeline[i].text = CompletionText

\* the SubagentSpawn event the classifier returns
SpawnEvent == [kind |-> "SubagentSpawn", desc |-> "agent"]

\* C22: a SubagentSpawn event is handled in every permission mode and at every
\* age of the debounce timestamps, enqueues one spawning announcement and
\* leaves the pending approval and both debounce timestamps as they are
C22_SpawnAnnouncedAtOnce ==
    /\ [](wpc = "paths" /\ paths_left > 0 /\ WatcherReady /\ IdsLeft >= 2
            => ENABLED WatcherPathLine(SpawnEvent))
    /\ [][WatcherPathLine(SpawnEvent)
            => /\ WatcherAnnounces(SpawnText("agent"))
               /\ pending_tool_use' = pending_tool_use
               /\ last_completion_notify' = last_completion_notify
               /\ last_approval_notify' = last_approval_notify]_vars

\* a spawn was announced while an approval was pending, which still is
C22_Witness ==
    /\ \E h \in InflightOf("watcher") : h.e.text = SpawnText("agent")
    /\ pending_tool_use # None

\* the positions of the entries of tl that are not Done
Remaining(tl) == {j \in 1..Len(tl) : tl[j].status # "done"}

\* C23: clear_timeline removes the Done entries and nothing else: what is left
\* is the Queued and Speaking entries, unchanged and in their order, wherever
\* the playback worker is
C23_ClearRemovesOnlyDone ==
    [][clear_timeline =>
        /\ Len(timeline') = Cardinality(Remaining(timeline))
        /\ \A i \in 1..Len(timeline') : timeline'[i].status # "done"
        /\ \A j \in Remaining(timeline) :
              \E i \in 1..Len(timeline') : timeline'[i] = timeline[j]
        /\ \A i, k \in 1..Len(timeline') : i < k =>
              \E j, l \in Remaining(timeline) :
                  j < l /\ timeline[j] = timeline'[i] /\ timeline[l] = timeline'[k]
        /\ UNCHANGED <<next_id, is_speaking, pc, entry, synth>>]_vars

\* the first entry was cleared away while the worker waits for the synthesizer
\* of the second, which is still there as Speaking
C23_Witness ==
    /\ nextUid = 3 /\ pc = "wait"
    /\ Len(timeline) = 1
    /\ timeline[1].uid = 2 /\ timeline[1].status = "speaking"

\* the documented order: connection status, icon state, tray handle; 0 for
\* the locks the order does not speak of
Rank(l) ==
    CASE l = "mqtt_status" -> 1
      [] l \in {"disconnected_icon", "speaking_icon", "idle_icon"} -> 2
      [] l = "tray_icon" -> 3
      [] OTHER -> 0

\* every thread took the ranked locks it holds in the documented order
LockOrder ==
    \A t \in LockThreads : \A i, j \in 1..Len(held[t]) :
        i < j /\ Rank(held[t][i]) > 0 /\ Rank(held[t][j]) > 0
            => Rank(held[t][i]) < Rank(held[t][j])

\* t waits for a lock that u holds
WaitsFor(t, u) ==
    /\ t # u
    /\ OpOf(t)[1] = "lock"
    /\ OpOf(t)[2] \in HeldBy(u)

\* no set of threads in which each waits for a lock another one holds, and no
\* thread that waits for a lock it holds itself
NoCyclicWait ==
    /\ \A t \in LockThreads : ~(OpOf(t)[1] = "lock" /\ OpOf(t)[2] \in HeldBy(t))
    /\ \A S \in SUBSET LockThreads :
          S # {} => \E t \in S : \A u \in S : ~WaitsFor(t, u)

\* C24: the locks a thread holds together were taken in the order connection
\* status, icon state, tray handle, and no threads wait for each other's
\* locks in a cycle
C24_LockOrderNoCycle == LockOrder /\ NoCyclicWait

\* the worker is in the synthesizer
InSynthesis == OpOf("worker") = Synthesis

\* C25: the worker holds the timeline lock only next to its two status
\* updates and never in the synthesizer, where a thread that asks for the
\* timeline lock gets it unless a thread other than the worker holds it
C25_NoLockDuringSynthesis ==
    /\ "timeline" \in HeldBy("worker")
          => OpOf("worker") \in {Unlock("timeline"), Lock("is_speaking"),
                                 Unlock("is_speaking")}
    /\ InSynthesis =>
          /\ "timeline" \notin HeldBy("worker")
          /\ \A t \in LockThreads \ {"worker"} :
                OpOf(t) = Lock("timeline")
                /\ Holders("timeline") \ {"worker"} = {}
                    => ENABLED LockAcquire(t)

\* the worker is in the synthesizer while a handler is about to push an entry
\* and a status command holds nothing yet
C25_Witness ==
    /\ InSynthesis
    /\ lpc["http"].routine.fn = "speak" /\ OpOf("http") = Lock("timeline")
    /\ Holders("timeline") = {}

\* an assistant line that stops for the tools named
ToolUseLine(tools) ==
    [type |-> "assistant", tool_result |-> FALSE, stop_reason |-> "tool_use",
     tools |-> tools, desc |-> None]

\* the tools the module's header calls edit tools
EditTools == {"Edit", "Write", "MultiEdit", "NotebookEdit"}

\* lines that invoke one tool, or a safe tool and another one
ToolUseLines ==
    {ToolUseLine(<<name>>) : name \in APPROVAL_TOOLS \cup {"Read", "Grep"}}
    \cup {ToolUseLine(<<"Read", name>>) : name \in APPROVAL_TOOLS \cup {"Grep"}}

\* the names of the tools a line invokes
ToolsOf(l) == {l.tools[i] : i \in 1..Len(l.tools)}

\* C26: in AutoAcceptEdits mode a line that invokes Bash starts the approval
\* timer when none runs, and a line that invokes edit tools only starts none
C26_AutoAcceptEditsAlertsBash ==
    [][\A l \in ToolUseLines :
          perm_mode = "AutoAcceptEdits" /\ WatcherPathLine(classify(<<l>>))
            => /\ "Bash" \in ToolsOf(l) /\ pending_tool_use = None
                    => pending_tool_use' = Some(0)
               /\ ToolsOf(l) \subseteq EditTools
                    => pending_tool_use' = pending_tool_use]_vars

SessionRuns == mpc \in {"poll_check", "poll_wait"}

\* C28: the status is Connected only while the session that was acknowledged
\* runs; a session sets Connecting as it starts, and the status becomes
\* Connected only in a running session's poll
C28_StatusFollowsSession ==
    /\ [](mqtt_status = "connected" => SessionRuns)
    /\ [][/\ mpc = "connect" /\ mpc' # "connect" => mqtt_status' = "connecting"
          /\ mqtt_status # "connected" /\ mqtt_status' = "connected"
                => mpc = "poll_wait" /\ mpc' = "poll_check"]_vars

\* C29: the ids of the timeline increase from the front to the back
C29_TimelineInIdOrder ==
    \A i, j \in 1..Len(timeline) : i < j => timeline[i].id < timeline[j].id

\* stamps the pushes of a run can give
Stamps == 1..(MaxId + MaxTest)

\* the entry with this stamp is in the timeline and not Done
Unfinished(u) ==
    \E i \in 1..Len(timeline) : timeline[i].uid = u /\ timeline[i].status # "done"

\* C30: every entry of the timeline that is not Done is Done later, or gone
\* from the timeline
C30_EveryEntryDone == \A u \in Stamps : Unfinished(u) ~> ~Unfinished(u)

\* the scan of this call starts behind every line a scan reached before
StartsBehindScanned == classified # None => file_positions[1] >= classified[1]

\* C31: while the file is never truncated, no appended line is classified
\* twice: a read that went beyond the size its call recorded, because the file
\* grew in between, leaves a cursor from which the next call reads none of
\* those lines again.
C31_NoLineClassifiedTwice ==
    [][tpc = "read" /\ tpc' = "idle" => StartsBehindScanned]_vars

\* the flag a status read reports agrees with the timeline it was read with
FlagCoversSpeaking(s) == s.speaking > 0 => s.is_speaking

\* the flag a status read reports is on only while a synthesizer runs
FlagMeansSynthesis(s) == s.is_speaking => s.synthesis

\* C32: a status read never reports is_speaking false while some entry of the
\* timeline is Speaking, and never reports is_speaking true while no
\* synthesis is in progress, however it interleaves with the worker.
C32_StatusReadConsistent ==
    status_read # None =>
        FlagCoversSpeaking(status_read[1]) /\ FlagMeansSynthesis(status_read[1])

\* C33: the debounce of the approval announcements never suppresses one:
\* whenever the timer check finds, in Normal mode, a pending approval older
\* than the timeout, the previous approval announcement is older than the
\* debounce, and the check enqueues the announcement.
C33_DebounceNeverSuppresses ==
    [][wpc = "check" /\ wpc' = "recv" /\ Expired
          => /\ should_notify(last_approval_notify, APPROVAL_DEBOUNCE_SECS)
             /\ WatcherAnnounces(ApprovalText)
             /\ pending_tool_use' = None]_vars

\* a second approval announcement was just enqueued, the first one is in
\* the timeline
C33_Witness ==
    /\ \E h \in inflight : h.src = "watcher" /\ h.e.text = ApprovalText
    /\ \E i \in 1..Len(timeline) : timeline[i].text = ApprovalText
    /\ last_approval_notify = Some(0)

====
